---- MODULE Spec2Model ----
(***************************************************************************)
(* CampusNetwork (DAAproject.py): a weighted undirected graph of campus    *)
(* buildings, and the two minimum-spanning-tree methods kruskal_mst and    *)
(* prim_mst that are run over it.                                          *)
(*                                                                         *)
(* Building names are the integers 1..MaxNodes, ordered as Python orders   *)
(* the name strings (heapq compares the names when two weights tie).       *)
(* Coordinates (x, y) are carried through to the renderer only and take    *)
(* no part in any decision of the code; they are left out of the state.    *)
(* An optional value (self.mst, a method's return value) is the empty      *)
(* sequence for None and a one-element sequence otherwise.                 *)
(***************************************************************************)
EXTENDS Integers, Sequences, FiniteSets

MaxNodes == 4
MaxEdges == 3
MaxWeight == 2
MaxCalls == 5

Names == 1..MaxNodes
\* costs accepted from a caller that respects the documented data model
Weights == 0..MaxWeight
\* costs a caller can pass at all (add_connection does not look at the sign)
Costs == (0 - 1)..MaxWeight
\* previous = None in a priority-queue entry
NoNode == 0
None == <<>>

VARIABLES buildings, graph, mst, pc, edges, idx, parent, tree, total_cost,
          visited, pq, returned, lastMst, raised, calls

vars == <<buildings, graph, mst, pc, edges, idx, parent, tree, total_cost,
          visited, pq, returned, lastMst, raised, calls>>

Range(s) == {s[i] : i \in 1..Len(s)}

(***************************************************************************)
(* networkx.Graph as the code uses it: nodes in insertion order, each     *)
(* node's neighbours in insertion order, one weight per unordered pair.    *)
(***************************************************************************)
EmptyGraph == [node |-> <<>>, adj |-> <<>>, wt |-> <<>>]

NodeSet(g) == Range(g.node)

AddNode(g, n) ==
    IF n \in NodeSet(g) THEN g
    ELSE [node |-> Append(g.node, n),
          adj  |-> [m \in NodeSet(g) \cup {n} |-> IF m = n THEN <<>> ELSE g.adj[m]],
          wt   |-> g.wt]

\* Graph.add_edge(u, v, weight=w): missing endpoints are added, an existing
\* pair keeps its place in both neighbour lists and takes the new weight
AddEdge(g, u, v, w) ==
    LET g2 == AddNode(AddNode(g, u), v)
        link(a, b, nb) == IF b \in Range(nb) THEN nb ELSE Append(nb, b)
        adjU == [g2.adj EXCEPT ![u] = link(u, v, @)]
        adjV == [adjU EXCEPT ![v] = link(v, u, @)]
    IN  [node |-> g2.node,
         adj  |-> adjV,
         wt   |-> [p \in (DOMAIN g2.wt) \cup {<<u, v>>, <<v, u>>} |->
                      IF p \in {<<u, v>>, <<v, u>>} THEN w ELSE g2.wt[p]]]

\* Graph.edges(data=True): for each node in order, each neighbour in order
\* that was not already reported from the other side
RECURSIVE EdgesFrom(_, _)
EdgesFrom(g, i) ==
    IF i > Len(g.node) THEN <<>>
    ELSE LET n    == g.node[i]
             seen == {g.node[j] : j \in 1..(i - 1)}
             nbrs == SelectSeq(g.adj[n], LAMBDA m : m \notin seen)
         IN  [k \in 1..Len(nbrs) |-> <<n, nbrs[k], g.wt[<<n, nbrs[k]>>]>>]
             \o EdgesFrom(g, i + 1)

Edges(g) == EdgesFrom(g, 1)

\* sorted(..., key=weight): stable, ascending
RECURSIVE InsertByWeight(_, _)
InsertByWeight(s, e) ==
    IF s = <<>> THEN <<e>>
    ELSE IF s[Len(s)][3] <= e[3] THEN Append(s, e)
    ELSE Append(InsertByWeight(SubSeq(s, 1, Len(s) - 1), e), s[Len(s)])

\* a sort that is left out
Unsorted(s) == s

RECURSIVE SortByWeight(_)
SortByWeight(s) ==
    IF s = <<>> THEN <<>>
    ELSE InsertByWeight(SortByWeight(SubSeq(s, 1, Len(s) - 1)), s[Len(s)])

(***************************************************************************)
(* The union-find of kruskal_mst.  find and union assign to the enclosing  *)
(* parent dictionary; here they return the dictionary they leave behind.   *)
(***************************************************************************)
RECURSIVE Find(_, _)
Find(par, node) ==
    IF par[node] # node
    THEN LET up == Find(par, par[node])
         IN  [par |-> [up.par EXCEPT ![node] = up.root], root |-> up.root]
    ELSE [par |-> par, root |-> node]

\* union that compares the two nodes instead of their roots
UnionByNode(par, node1, node2) ==
    LET f1 == Find(par, node1)
        f2 == Find(f1.par, node2)
    IN  IF node1 # node2
        THEN [par |-> [f2.par EXCEPT ![f2.root] = f1.root], ok |-> TRUE]
        ELSE [par |-> f2.par, ok |-> FALSE]

\* union that re-parents node2 itself instead of its root
UnionAttachNode(par, node1, node2) ==
    LET f1 == Find(par, node1)
        f2 == Find(f1.par, node2)
    IN  IF f1.root # f2.root
        THEN [par |-> [f2.par EXCEPT ![node2] = f1.root], ok |-> TRUE]
        ELSE [par |-> f2.par, ok |-> FALSE]

Union(par, node1, node2) ==
    LET f1 == Find(par, node1)
        f2 == Find(f1.par, node2)
    IN  IF f1.root # f2.root
        THEN [par |-> [f2.par EXCEPT ![f2.root] = f1.root], ok |-> TRUE]
        ELSE [par |-> f2.par, ok |-> FALSE]

(***************************************************************************)
(* The priority queue of prim_mst.  Entries are (weight, node, previous);  *)
(* no entry is pushed twice, and after the first pop previous is never     *)
(* None, so the tuple order is total on the entries held and the heap is   *)
(* determined by the set of its entries.                                   *)
(***************************************************************************)
TupleLess(a, b) ==
    \/ a[1] < b[1]
    \/ a[1] = b[1] /\ a[2] < b[2]
    \/ a[1] = b[1] /\ a[2] = b[2] /\ a[3] < b[3]

\* a heap that hands out its largest entry
HeapBottom(q) == CHOOSE e \in q : \A f \in q \ {e} : TupleLess(f, e)

HeapTop(q) == CHOOSE e \in q : \A f \in q \ {e} : TupleLess(e, f)

\* a queue that starts without the start node
EmptyPq(start_node) == {}

InitialPq(start_node) == {<<0, start_node, NoNode>>}

\* the traversal started from the node registered last
LastNode(g) == g.node[Len(g.node)]

StartNode(g) == g.node[1]

\* the loop without its test for an entry whose node is already in the tree
NeverStale(current, seen) == FALSE

Stale(current, seen) == current \in seen

\* one heappush per neighbour of current that is not yet visited
Pushes(g, current, seen) ==
    {<<g.wt[<<current, nb>>], nb, current>> : nb \in Range(g.adj[current]) \ seen}

(***************************************************************************)
(* State after CampusNetwork(), and the values the locals of the two       *)
(* methods hold while no method is running.                                *)
(***************************************************************************)
NoLocals ==
    /\ edges = <<>>
    /\ idx = 0
    /\ parent = <<>>
    /\ tree = EmptyGraph
    /\ total_cost = 0
    /\ visited = {}
    /\ pq = {}

ClearLocals ==
    /\ edges' = <<>>
    /\ idx' = 0
    /\ parent' = <<>>
    /\ tree' = EmptyGraph
    /\ total_cost' = 0
    /\ visited' = {}
    /\ pq' = {}

Init ==
    /\ buildings = {}
    /\ graph = EmptyGraph
    /\ mst = None
    /\ pc = "idle"
    /\ NoLocals
    /\ returned = None
    /\ lastMst = "none"
    /\ raised = "none"
    /\ calls = 0

(***************************************************************************)
(* add_building, add_connection                                            *)
(***************************************************************************)
AddBuilding(name) ==
    /\ pc = "idle"
    /\ buildings' = buildings \cup {name}
    /\ graph' = AddNode(graph, name)
    /\ raised' = "none"
    /\ UNCHANGED <<mst, pc, edges, idx, parent, tree, total_cost, visited, pq,
                   returned, lastMst>>

\* raised is the exception a call ends with; no statement of the four methods
\* raises one, and add_connection with an unknown name just returns
AddConnection(building1, building2, cost) ==
    /\ pc = "idle"
    /\ graph' = IF building1 \in buildings /\ building2 \in buildings
                THEN AddEdge(graph, building1, building2, cost)
                ELSE graph
    /\ raised' = "none"
    /\ UNCHANGED <<buildings, mst, pc, edges, idx, parent, tree, total_cost,
                   visited, pq, returned, lastMst>>

(***************************************************************************)
(* kruskal_mst: lines 21-39, one turn of the loop of lines 41-44, and      *)
(* lines 46-48.                                                            *)
(***************************************************************************)
RECURSIVE AddNodes(_, _)
AddNodes(g, s) == IF s = <<>> THEN g ELSE AddNodes(AddNode(g, s[1]), Tail(s))

KruskalStart ==
    /\ pc = "idle"
    /\ pc' = "kruskal"
    /\ edges' = SortByWeight(Edges(graph))
    /\ idx' = 1
    /\ parent' = [n \in NodeSet(graph) |-> n]
    /\ tree' = AddNodes(EmptyGraph, graph.node)
    /\ total_cost' = 0
    /\ UNCHANGED <<buildings, graph, mst, visited, pq, returned, lastMst, raised>>

KruskalStep ==
    /\ pc = "kruskal"
    /\ idx <= Len(edges)
    /\ LET u == edges[idx][1]
           v == edges[idx][2]
           w == edges[idx][3]
           r == Union(parent, u, v)
       IN  /\ parent' = r.par
           /\ tree' = IF r.ok THEN AddEdge(tree, u, v, w) ELSE tree
           /\ total_cost' = IF r.ok THEN total_cost + w ELSE total_cost
    /\ idx' = idx + 1
    /\ UNCHANGED <<buildings, graph, mst, pc, edges, visited, pq, returned,
                   lastMst, raised, calls>>

KruskalFinish ==
    /\ pc = "kruskal"
    /\ idx > Len(edges)
    /\ mst' = <<tree>>
    /\ returned' = <<tree>>
    /\ lastMst' = "kruskal_mst"
    /\ raised' = "none"
    /\ pc' = "idle"
    /\ ClearLocals
    /\ UNCHANGED <<buildings, graph, calls>>

(***************************************************************************)
(* prim_mst: lines 51-52, lines 54-58, one turn of the loop of lines       *)
(* 60-73, and lines 75-77.                                                 *)
(***************************************************************************)
PrimEmpty ==
    /\ pc = "idle"
    /\ graph.node = <<>>
    /\ returned' = <<EmptyGraph>>
    /\ lastMst' = "prim_mst"
    /\ raised' = "none"
    /\ UNCHANGED <<buildings, graph, mst, pc, edges, idx, parent, tree,
                   total_cost, visited, pq>>

PrimStart ==
    /\ pc = "idle"
    /\ graph.node # <<>>
    /\ pc' = "prim"
    /\ tree' = EmptyGraph
    /\ visited' = {}
    /\ pq' = InitialPq(StartNode(graph))
    /\ total_cost' = 0
    /\ UNCHANGED <<buildings, graph, mst, edges, idx, parent, returned,
                   lastMst, raised>>

PrimLoop == pq # {} /\ Cardinality(visited) < Len(graph.node)

\* one turn of the loop: pop, drop the entry if its node is already in the
\* tree, otherwise take the node, its edge, and push its open neighbours
PrimStep ==
    /\ pc = "prim"
    /\ PrimLoop
    /\ LET top      == HeapTop(pq)
           weight   == top[1]
           current  == top[2]
           previous == top[3]
       IN  IF Stale(current, visited)
           THEN /\ pq' = pq \ {top}
                /\ UNCHANGED <<visited, tree, total_cost>>
           ELSE /\ visited' = visited \cup {current}
                /\ tree' = IF previous # NoNode
                           THEN AddEdge(AddNode(tree, current), previous, current, weight)
                           ELSE AddNode(tree, current)
                /\ total_cost' = IF previous # NoNode
                                 THEN total_cost + weight
                                 ELSE total_cost
                /\ pq' = (pq \ {top}) \cup Pushes(graph, current, visited \cup {current})
    /\ UNCHANGED <<buildings, graph, mst, pc, edges, idx, parent, returned,
                   lastMst, raised, calls>>

PrimFinish ==
    /\ pc = "prim"
    /\ ~PrimLoop
    /\ mst' = <<tree>>
    /\ returned' = <<tree>>
    /\ lastMst' = "prim_mst"
    /\ raised' = "none"
    /\ pc' = "idle"
    /\ ClearLocals
    /\ UNCHANGED <<buildings, graph, calls>>

RunStep == KruskalStep \/ KruskalFinish \/ PrimStep \/ PrimFinish

(***************************************************************************)
(* Spec: any caller.  Every call is counted, and MaxCalls of them are      *)
(* followed.                                                               *)
(***************************************************************************)
CallAddBuilding ==
    /\ calls < MaxCalls
    /\ \E name \in Names : AddBuilding(name)
    /\ calls' = calls + 1

CallAddConnection ==
    /\ calls < MaxCalls
    /\ \E b1 \in Names, b2 \in Names, cost \in Costs : AddConnection(b1, b2, cost)
    /\ calls' = calls + 1

CallKruskal == calls < MaxCalls /\ KruskalStart /\ calls' = calls + 1

CallPrimEmpty == calls < MaxCalls /\ PrimEmpty /\ calls' = calls + 1

CallPrim == calls < MaxCalls /\ PrimStart /\ calls' = calls + 1

Next ==
    \/ CallAddConnection
    \/ CallAddBuilding
    \/ CallKruskal
    \/ CallPrimEmpty
    \/ CallPrim
    \/ RunStep

Spec == Init /\ [][Next]_vars

(***************************************************************************)
(* SpecAlg: the documented use.  The collaborator registers nodes and      *)
(* links between two different registered nodes with a non-negative cost,  *)
(* and from the first MST call on the graph is left alone.                 *)
(***************************************************************************)
Building == pc = "idle" /\ lastMst = "none"

NumLinks(g) == Cardinality({{p[1], p[2]} : p \in DOMAIN g.wt})

RegisterNode ==
    /\ Building
    /\ \E name \in Names : AddBuilding(name)
    /\ UNCHANGED calls

RegisterLink ==
    /\ Building
    /\ \E b1 \in buildings, b2 \in buildings, cost \in Weights :
          /\ b1 # b2
          /\ NumLinks(AddEdge(graph, b1, b2, cost)) <= MaxEdges
          /\ AddConnection(b1, b2, cost)
    /\ UNCHANGED calls

RunKruskal == KruskalStart /\ UNCHANGED calls

RunPrimEmpty == PrimEmpty /\ UNCHANGED calls

RunPrim == PrimStart /\ UNCHANGED calls

NextAlg ==
    \/ RegisterNode
    \/ RegisterLink
    \/ RunKruskal
    \/ RunPrimEmpty
    \/ RunPrim
    \/ RunStep

SpecAlg == Init /\ [][NextAlg]_vars

(***************************************************************************)
(* Graph theory the properties are stated in.  A link is the set of its    *)
(* endpoints; a self-loop is a one-element set.                            *)
(***************************************************************************)
LinkSet(g) == {{p[1], p[2]} : p \in DOMAIN g.wt}

LinkWeight(g, e) ==
    LET u == CHOOSE x \in e : TRUE
        v == CHOOSE y \in e : e = {u, y}
    IN  g.wt[<<u, v>>]

RECURSIVE SumWeights(_, _)
SumWeights(g, E) ==
    IF E = {} THEN 0
    ELSE LET e == CHOOSE x \in E : TRUE
         IN  LinkWeight(g, e) + SumWeights(g, E \ {e})

TotalWeight(g) == SumWeights(g, LinkSet(g))

RECURSIVE Grow(_, _)
Grow(E, S) ==
    LET T == S \cup UNION {e \in E : e \cap S # {}}
    IN  IF T = S THEN S ELSE Grow(E, T)

Reach(E, n) == Grow(E, {n})

Components(V, E) == {Reach(E, n) : n \in V}

IsForest(V, E) ==
    /\ \A e \in E : Cardinality(e) = 2 /\ e \subseteq V
    /\ Cardinality(E) + Cardinality(Components(V, E)) = Cardinality(V)

SpanningForests(g) ==
    {F \in SUBSET LinkSet(g) :
        /\ IsForest(NodeSet(g), F)
        /\ \A n \in NodeSet(g) : Reach(F, n) = Reach(LinkSet(g), n)}

IsConnected(g) == Cardinality(Components(NodeSet(g), LinkSet(g))) = 1

NonNegative(g) == \A p \in DOMAIN g.wt : g.wt[p] >= 0

\* the tree a run is about to return: its loop has ended, lines 46-48 or
\* 75-77 are next
KruskalDone == pc = "kruskal" /\ idx > Len(edges)

PrimDone == pc = "prim" /\ ~PrimLoop

\* all unions succeed when the edges of t are replayed into a fresh union-find
RECURSIVE ReplayOk(_, _)
ReplayOk(par, es) ==
    \/ es = <<>>
    \/ LET r == Union(par, es[1][1], es[1][2])
       IN  r.ok /\ ReplayOk(r.par, Tail(es))

Replays(t) == ReplayOk([n \in NodeSet(t) |-> n], Edges(t))

RECURSIVE Climb(_, _, _)
Climb(par, n, k) == IF k = 0 THEN n ELSE Climb(par, par[n], k - 1)

\* where n's parent chain is after as many steps as there are nodes
Top(par, n) == Climb(par, n, Cardinality(DOMAIN par))

(***************************************************************************)
(* C1.  On a connected graph with non-negative weights, the tree prim_mst  *)
(* returns and the tree kruskal_mst returns have the same total weight:    *)
(* when either method is about to return and the other returned last (on   *)
(* the same graph), the two totals are equal.                              *)
(***************************************************************************)
C1_SameTotalWeight ==
    (/\ \/ PrimDone /\ lastMst = "kruskal_mst"
        \/ KruskalDone /\ lastMst = "prim_mst"
     /\ IsConnected(graph)
     /\ NonNegative(graph))
    => TotalWeight(tree) = TotalWeight(returned[1])

\* Prim finishes after Kruskal on a connected graph with a cycle and has
\* chosen other edges
C1_Witness ==
    /\ PrimDone
    /\ lastMst = "kruskal_mst"
    /\ IsConnected(graph)
    /\ Cardinality(LinkSet(graph)) >= Len(graph.node)
    /\ LinkSet(tree) # LinkSet(returned[1])
    /\ TotalWeight(tree) = TotalWeight(returned[1])
    /\ TotalWeight(tree) > 0

(***************************************************************************)
(* C2.  What kruskal_mst returns holds every node of the graph, and its    *)
(* edges are a spanning forest of the graph (acyclic, joining the nodes    *)
(* the graph joins), carry the graph's weights, and weigh no more than any *)
(* other spanning forest of the graph.                                     *)
(***************************************************************************)
C2_KruskalMinimumForest ==
    (pc = "idle" /\ lastMst = "kruskal_mst") =>
        LET t == returned[1]
        IN  /\ NodeSet(t) = NodeSet(graph)
            /\ LinkSet(t) \in SpanningForests(graph)
            /\ \A e \in LinkSet(t) : LinkWeight(t, e) = LinkWeight(graph, e)
            /\ \A F \in SpanningForests(graph) :
                  TotalWeight(t) <= SumWeights(graph, F)

\* a disconnected graph with a cycle, of which some spanning forest is
\* strictly heavier than the one returned
C2_Witness ==
    /\ pc = "idle"
    /\ lastMst = "kruskal_mst"
    /\ Cardinality(Components(NodeSet(graph), LinkSet(graph))) = 2
    /\ LinkSet(returned[1]) # LinkSet(graph)
    /\ \E F \in SpanningForests(graph) :
          SumWeights(graph, F) > TotalWeight(returned[1])

(***************************************************************************)
(* C3.  kruskal_mst returns only after the loop has gone through every     *)
(* edge of the graph, and the tree it then returns has as many edges as    *)
(* the graph has nodes, less the number of its connected components.       *)
(***************************************************************************)
C3_KruskalEdgeCount ==
    [][(pc = "kruskal" /\ pc' = "idle") =>
          /\ idx = Len(edges) + 1
          /\ Len(edges) = Cardinality(LinkSet(graph))
          /\ Cardinality(LinkSet(returned'[1])) + Cardinality(Components(NodeSet(graph), LinkSet(graph)))
               = Len(graph.node)]_vars

\* two components, one of them with a cycle: fewer than N - 1 edges chosen
C3_Witness ==
    /\ pc = "idle"
    /\ lastMst = "kruskal_mst"
    /\ Cardinality(Components(NodeSet(graph), LinkSet(graph))) = 2
    /\ Cardinality(LinkSet(graph)) = 3
    /\ Cardinality(LinkSet(returned[1])) = 2

(***************************************************************************)
(* C4.  The edges selected so far by either method are a forest in every   *)
(* state of a run, and so are the edges of the tree stored and of the tree *)
(* returned, whose replay through a fresh union-find has no failed union.  *)
(***************************************************************************)
C4_AlwaysForest ==
    /\ IsForest(NodeSet(tree), LinkSet(tree))
    /\ mst # None => IsForest(NodeSet(mst[1]), LinkSet(mst[1])) /\ Replays(mst[1])
    /\ returned # None =>
          IsForest(NodeSet(returned[1]), LinkSet(returned[1])) /\ Replays(returned[1])

\* Prim is about to pop an entry whose edge would close a cycle
C4_Witness ==
    /\ pc = "prim"
    /\ PrimLoop
    /\ HeapTop(pq)[2] \in visited
    /\ {HeapTop(pq)[2], HeapTop(pq)[3]} \notin LinkSet(tree)

(***************************************************************************)
(* C5.  On a graph with a node, what prim_mst returns holds exactly the    *)
(* nodes of the connected component of the first registered node, and its  *)
(* edges are a spanning tree of that component (edges of the graph, no     *)
(* cycle, one fewer than the component has nodes).  On a disconnected      *)
(* graph it therefore differs from what kruskal_mst returned, which holds  *)
(* every node and one tree per component.                                  *)
(***************************************************************************)
C5_PrimSpansStartComponent ==
    LET first == graph.node[1]
        comp  == Reach(LinkSet(graph), first)
    IN  /\ (pc = "idle" /\ lastMst = "prim_mst" /\ graph.node # <<>>) =>
              LET t == returned[1]
              IN  /\ NodeSet(t) = comp
                  /\ LinkSet(t) \subseteq LinkSet(graph)
                  /\ IsForest(comp, LinkSet(t))
                  /\ Cardinality(LinkSet(t)) = Cardinality(comp) - 1
                  /\ Reach(LinkSet(t), first) = comp
        /\ (PrimDone /\ lastMst = "kruskal_mst" /\ ~IsConnected(graph)) =>
              /\ NodeSet(tree) # NodeSet(returned[1])
              /\ NodeSet(returned[1]) = NodeSet(graph)
              /\ Cardinality(LinkSet(returned[1]))
                   + Cardinality(Components(NodeSet(graph), LinkSet(graph)))
                   = Len(graph.node)

\* components {a, b} and {c, d}, one link each: Prim returns the first one
C5_Witness ==
    /\ pc = "idle"
    /\ lastMst = "prim_mst"
    /\ Len(graph.node) = 4
    /\ Cardinality(LinkSet(graph)) = 2
    /\ Cardinality(Components(NodeSet(graph), LinkSet(graph))) = 2
    /\ Cardinality(NodeSet(returned[1])) = 2
    /\ Cardinality(LinkSet(returned[1])) = 1

(***************************************************************************)
(* C8.  On a graph without nodes both methods end without an exception     *)
(* and return a result without nodes and edges, of total weight 0; on a    *)
(* graph of one node and no edge they return that node, no edge, total     *)
(* weight 0.  A run on such a graph always has a next step until it        *)
(* returns.                                                                *)
(***************************************************************************)
C8_EmptyAndSingleNode ==
    /\ (graph.node = <<>> /\ pc = "idle" /\ lastMst # "none") =>
          /\ raised = "none"
          /\ returned = <<EmptyGraph>>
          /\ TotalWeight(returned[1]) = 0
    /\ (Len(graph.node) = 1 /\ LinkSet(graph) = {} /\ pc = "idle" /\ lastMst # "none") =>
          /\ raised = "none"
          /\ NodeSet(returned[1]) = {graph.node[1]}
          /\ LinkSet(returned[1]) = {}
          /\ TotalWeight(returned[1]) = 0
    /\ (Len(graph.node) <= 1 /\ pc # "idle") =>
          /\ ENABLED RunStep
          /\ total_cost = 0
          /\ idx <= 1

\* prim_mst has returned on a graph of one node
C8_Witness ==
    /\ Len(graph.node) = 1
    /\ pc = "idle"
    /\ lastMst = "prim_mst"
    /\ returned = <<AddNode(EmptyGraph, graph.node[1])>>
    /\ mst = returned

(***************************************************************************)
(* C9.  In every state of a run of kruskal_mst the parent mapping has no   *)
(* cycle but the self-loops of roots, find ends at the root of its node,   *)
(* two nodes have the same root exactly when the edges selected so far     *)
(* connect them, and union(u, v) returns true exactly when the selected    *)
(* edges do not connect u and v, i.e. when edge (u, v) closes no cycle.    *)
(***************************************************************************)
C9_UnionFindTracksTree ==
    pc = "kruskal" =>
        /\ DOMAIN parent = NodeSet(graph)
        /\ \A n \in NodeSet(graph) : parent[n] \in NodeSet(graph)
        /\ \A n \in NodeSet(graph) : parent[Top(parent, n)] = Top(parent, n)
        /\ \A n \in NodeSet(graph) : Find(parent, n).root = Top(parent, n)
        /\ \A u \in NodeSet(graph), v \in NodeSet(graph) :
              /\ (Top(parent, u) = Top(parent, v)) <=> (v \in Reach(LinkSet(tree), u))
              /\ Union(parent, u, v).ok <=> (v \notin Reach(LinkSet(tree), u))

\* a parent chain two links long, and the next edge joins two nodes of one set
C9_Witness ==
    /\ pc = "kruskal"
    /\ idx <= Len(edges)
    /\ \E n \in NodeSet(graph) : parent[n] # n /\ parent[parent[n]] # parent[n]
    /\ edges[idx][2] \in Reach(LinkSet(tree), edges[idx][1])
    /\ ~Union(parent, edges[idx][1], edges[idx][2]).ok

(***************************************************************************)
(* C6.  add_connection with a name that is not registered ends with an     *)
(* UnknownNodeError and leaves nodes and edges as they were, and in every  *)
(* state the endpoints of every edge are registered.                       *)
(***************************************************************************)
C6_UnknownNodeRejected ==
    /\ [](\A p \in DOMAIN graph.wt : p[1] \in buildings /\ p[2] \in buildings)
    /\ [][(\E b1 \in Names, b2 \in Names, cost \in Costs :
              /\ b1 \notin buildings \/ b2 \notin buildings
              /\ AddConnection(b1, b2, cost))
          => (raised' = "UnknownNodeError" /\ graph' = graph /\ buildings' = buildings)]_vars

(***************************************************************************)
(* C7.  add_connection with a negative cost is rejected, so no stored edge *)
(* weight is ever negative.                                                *)
(***************************************************************************)
C7_NoNegativeWeight == NonNegative(graph)

(***************************************************************************)
(* C10.  Once an MST method has been called and has returned, self.mst is  *)
(* not None and is what the most recent such call returned.                *)
(***************************************************************************)
C10_MstIsLastResult ==
    (pc = "idle" /\ lastMst # "none") => (mst # None /\ mst = returned)
====
